---- MODULE Spec2Model ----
(***************************************************************************)
(* Local-LLM-Chat (main.py): the chat relay backend.  The model covers the *)
(* two SQL tables, the request handlers chat_stream, regenerate_from_prompt *)
(* and delete_conversation, and the async generator stream_ollama_response *)
(* (context building, upstream streaming, persistence of the reply).       *)
(*                                                                         *)
(* Text is modelled as a run-length encoded string: a sequence of runs     *)
(* <<c, n>> (n >= 1 copies of the character c, adjacent runs of different  *)
(* characters).  Two texts are equal exactly when their encodings are, and *)
(* len(), + and [:k] are computed on the encoding.                         *)
(***************************************************************************)
EXTENDS Integers, Sequences, FiniteSets, TLC

\* ------------------------------------------------------------------ bounds
NumRequests == 2      \* request slots (each HTTP request uses one)
MaxEvents == 3        \* delta and done events of a run of SpecRelay
MaxReplyEvents == 2   \* delta and done events, over all relays, of a run of Spec
MaxHist == 3          \* stored messages of the conversation in SpecAssembler
MaxSkipped == 2       \* unparsable upstream lines a relay reads

Requests == 1..NumRequests

\* ------------------------------------------------------------------ text
None == 0

CONTEXT_CHAR_LIMIT == 4096 * 2

TITLE_CHARS == 50

Str(c, n) == IF n = 0 THEN <<>> ELSE << <<c, n>> >>

RECURSIVE StrLen(_)
StrLen(s) == IF s = <<>> THEN 0 ELSE s[1][2] + StrLen(Tail(s))

\* s + t
Concat(s, t) ==
    IF s = <<>> THEN t
    ELSE IF t = <<>> THEN s
    ELSE IF s[Len(s)][1] = t[1][1]
         THEN SubSeq(s, 1, Len(s) - 1)
                \o << <<t[1][1], s[Len(s)][2] + t[1][2]>> >> \o Tail(t)
         ELSE s \o t

\* s[:k]
RECURSIVE Take(_, _)
Take(s, k) ==
    IF s = <<>> \/ k <= 0 THEN <<>>
    ELSE IF s[1][2] >= k THEN << <<s[1][1], k>> >>
    ELSE <<s[1]>> \o Take(Tail(s), k - s[1][2])

Reverse(q) == [i \in 1..Len(q) |-> q[Len(q) + 1 - i]]

Max(S) == CHOOSE x \in S : \A y \in S : y <= x

\* ------------------------------------------------------------------ tables
\* INTEGER PRIMARY KEY of SQLite without AUTOINCREMENT: the next rowid is one
\* more than the largest rowid now in the table.
NextId(rows) == IF rows = {} THEN 1 ELSE Max({x.id : x \in rows}) + 1

\* datetime.utcnow() of a default_factory: never earlier than the last value
\* read, and possibly equal to it.  Timestamps are only compared, so reading
\* "the same instant" or "a later instant" are the two outcomes.
ClockReads(last) == {last, last + 1}

\* A row of conversation.  Its created_at column is read by no handler of the
\* model (only GET /api/conversations orders by it) and is left out.
Conversation(id, title) == [id |-> id, title |-> title]

ChatMessage(id, role, content, created_at, conversation_id) ==
    [id |-> id, role |-> role, content |-> content, created_at |-> created_at,
     conversation_id |-> conversation_id]

\* select(ChatMessage).where(ChatMessage.conversation_id == cid)
MessagesOf(rows, cid) == {m \in rows : m.conversation_id = cid}

\* ... .order_by(ChatMessage.created_at.desc()).all(): every order of the rows
\* that is non-increasing in created_at (rows of equal created_at come in an
\* order SQL leaves open).
RECURSIVE OrderByCreatedAtDesc(_)
OrderByCreatedAtDesc(rows) ==
    IF rows = {} THEN {<<>>}
    ELSE LET newest == Max({m.created_at : m \in rows})
         IN UNION {{<<m>> \o rest : rest \in OrderByCreatedAtDesc(rows \ {m})} :
                   m \in {x \in rows : x.created_at = newest}}

\* ------------------------------------------------------------------ context
\* ContextWalk with the budget tested before the message is counted
\* (current_chars > CONTEXT_CHAR_LIMIT).
RECURSIVE ContextWalkLateTest(_, _, _)
ContextWalkLateTest(history, i, current_chars) ==
    IF i > Len(history) THEN <<>>
    ELSE LET msg == history[i]
             msg_chars == StrLen(msg.content)
         IN IF current_chars > CONTEXT_CHAR_LIMIT
            THEN <<>>
            ELSE <<[role |-> msg.role, content |-> msg.content]>>
                    \o ContextWalkLateTest(history, i + 1,
                                           current_chars + msg_chars)

\* ContextWalk with the test current_chars + msg_chars >= CONTEXT_CHAR_LIMIT.
RECURSIVE ContextWalkStrict(_, _, _)
ContextWalkStrict(history, i, current_chars) ==
    IF i > Len(history) THEN <<>>
    ELSE LET msg == history[i]
             msg_chars == StrLen(msg.content)
         IN IF current_chars + msg_chars >= CONTEXT_CHAR_LIMIT
            THEN <<>>
            ELSE <<[role |-> msg.role, content |-> msg.content]>>
                    \o ContextWalkStrict(history, i + 1,
                                         current_chars + msg_chars)

\* The loop of lines 115-121 from position i on, with the running total.
RECURSIVE ContextWalk(_, _, _)
ContextWalk(history, i, current_chars) ==
    IF i > Len(history) THEN <<>>
    ELSE LET msg == history[i]
             msg_chars == StrLen(msg.content)
         IN IF current_chars + msg_chars > CONTEXT_CHAR_LIMIT
            THEN <<>>
            ELSE <<[role |-> msg.role, content |-> msg.content]>>
                    \o ContextWalk(history, i + 1, current_chars + msg_chars)

\* BuildContext without the reverse() of line 124.
BuildContextNotReversed(history) == ContextWalk(history, 1, 0)

\* messages_for_ollama after line 124
BuildContext(history) == Reverse(ContextWalk(history, 1, 0))

\* ------------------------------------------------------------------ state
VARIABLES
    conversation,            \* table conversation: a set of rows
    chatmessage,             \* table chatmessage: a set of rows
    clock,                   \* the last value datetime.utcnow() returned
    request,                 \* per request slot: the request body
    pc,                      \* per request slot: where its handler/generator is
    initial_data,            \* per request: initial_data of the handler
    messages_for_ollama,     \* per relay: the assembled context
    full_response_content,   \* per relay: the accumulator
    chunk_done,              \* per relay: chunk.get("done") of the line in hand
    status_code,             \* per relay: response.status_code (None: no
                             \* response yet)
    received,                \* per relay: the upstream chunks read so far that
                             \* carried a fragment or the completion flag
    skipped,                 \* per relay: the upstream lines read so far that
                             \* json.loads rejected
    trace                    \* per request: its commits and outward events,
                             \* in program order

vars == <<conversation, chatmessage, clock, request, pc, initial_data,
          messages_for_ollama, full_response_content, chunk_done, status_code,
          received, skipped, trace>>

store == <<conversation, chatmessage>>
relay_locals == <<messages_for_ollama, full_response_content, chunk_done,
                  status_code, received, skipped>>

\* Request bodies.
Prompts == {Str("u", 1), Str("p", CONTEXT_CHAR_LIMIT + 1)}
ConversationIds == {None, 1, 2}
MessageIds == 1..5

ChatRequest(prompt, conversation_id) ==
    [kind |-> "chat", prompt |-> prompt, conversation_id |-> conversation_id,
     message_id |-> None]

RegenerateRequest(message_id, new_prompt) ==
    [kind |-> "regenerate", prompt |-> new_prompt, conversation_id |-> None,
     message_id |-> message_id]

DeleteRequest(conversation_id) ==
    [kind |-> "delete", prompt |-> <<>>, conversation_id |-> conversation_id,
     message_id |-> None]

NoRequest ==
    [kind |-> "none", prompt |-> <<>>, conversation_id |-> None,
     message_id |-> None]

NoMessage == ChatMessage(None, "none", <<>>, 0, None)
NoInitialData == [user_message |-> NoMessage, conversation_id |-> None]

\* Upstream lines, as json.loads and the two .get calls of line 142 see them.
JsonLine(content, done) ==
    [shape |-> "object", content |-> content, done |-> done]
Lines ==
    {[shape |-> "blank"], [shape |-> "malformed"], [shape |-> "not_object"],
     JsonLine(Str("a", 1), FALSE), JsonLine(Str("b", 1), FALSE),
     JsonLine(Str("b", 1), TRUE), JsonLine(<<>>, TRUE), JsonLine(<<>>, FALSE)}

ErrorBody == Str("e", 1)

\* Entries of trace.
Commit(op, table, rows) ==
    [kind |-> "commit", op |-> op, table |-> table, rows |-> rows]
InitialEvent(data) ==
    [kind |-> "event", type |-> "initial", user_message |-> data.user_message,
     conversation_id |-> data.conversation_id]
DeltaEvent(content_piece) ==
    [kind |-> "event", type |-> "delta", content |-> content_piece]
DoneEvent(message) ==
    [kind |-> "event", type |-> "done", done |-> TRUE, message |-> message]
ErrorEvent(body) ==
    [kind |-> "event", type |-> "error",
     error |-> <<"Ollama API Error: ", body>>]

\* ------------------------------------------------------------------ Init
\* A store the program reaches by two completed chats: a conversation with
\* two user messages and the assistant's replies.
SeedConversation == Conversation(1, Str("u", 1))
SeedMessages ==
    {ChatMessage(1, "user", Str("u", 1), 1, 1),
     ChatMessage(2, "assistant", Str("a", 1), 2, 1),
     ChatMessage(3, "user", Str("v", 1), 3, 1),
     ChatMessage(4, "assistant", Str("b", 1), 4, 1)}

InitRequests ==
    /\ request = [r \in Requests |-> NoRequest]
    /\ pc = [r \in Requests |-> "idle"]
    /\ initial_data = [r \in Requests |-> NoInitialData]
    /\ messages_for_ollama = [r \in Requests |-> <<>>]
    /\ full_response_content = [r \in Requests |-> <<>>]
    /\ chunk_done = [r \in Requests |-> FALSE]
    /\ status_code = [r \in Requests |-> None]
    /\ received = [r \in Requests |-> <<>>]
    /\ skipped = [r \in Requests |-> 0]
    /\ trace = [r \in Requests |-> <<>>]

Init ==
    /\ conversation = {SeedConversation}
    /\ chatmessage = SeedMessages
    /\ clock = 4
    /\ InitRequests

\* ------------------------------------------------------------------ handlers
Row(rows, id) == CHOOSE x \in rows : x.id = id
Has(rows, id) == \E x \in rows : x.id = id

\* Request slots are used in order of arrival.
Arrives(r) == pc[r] = "idle" /\ \A q \in Requests : q < r => pc[q] # "idle"

Log(r, entries) == trace' = [trace EXCEPT ![r] = @ \o entries]

\* raise HTTPException(status_code=404): the handler ends before it has
\* returned a response, with nothing written.
NotFound(r, body) ==
    /\ request' = [request EXCEPT ![r] = body]
    /\ pc' = [pc EXCEPT ![r] = "http404"]
    /\ UNCHANGED <<store, clock, initial_data, relay_locals, trace>>

\* chat_stream without the test of line 159: the user message is stored under
\* whatever conversation id the request names.
chat_stream_unchecked(r, prompt, conversation_id) ==
    /\ Arrives(r)
    /\ \E t2 \in ClockReads(clock) :
         LET created == IF conversation_id = None
                        THEN {Conversation(NextId(conversation),
                                           Take(prompt, TITLE_CHARS))}
                        ELSE {}
             cid == IF conversation_id = None THEN NextId(conversation)
                    ELSE conversation_id
             user_message == ChatMessage(NextId(chatmessage), "user",
                                         prompt, t2, cid)
         IN /\ conversation' = conversation \cup created
            /\ chatmessage' = chatmessage \cup {user_message}
            /\ clock' = t2
            /\ initial_data' = [initial_data EXCEPT ![r] =
                   [user_message |-> user_message, conversation_id |-> cid]]
            /\ Log(r, (IF created = {} THEN <<>>
                       ELSE <<Commit("insert", "conversation", created)>>)
                      \o <<Commit("insert", "chatmessage", {user_message})>>)
            /\ request' = [request EXCEPT ![r] =
                               ChatRequest(prompt, conversation_id)]
            /\ pc' = [pc EXCEPT ![r] = "initial"]
            /\ UNCHANGED relay_locals

\* POST /api/chat, lines 153-168: up to the return of the StreamingResponse.
chat_stream(r, prompt, conversation_id) ==
    /\ Arrives(r)
    /\ IF conversation_id = None
       THEN \E t2 \in ClockReads(clock) :
              LET conv == Conversation(NextId(conversation),
                                       Take(prompt, TITLE_CHARS))
                  user_message == ChatMessage(NextId(chatmessage), "user",
                                              prompt, t2, conv.id)
              IN /\ conversation' = conversation \cup {conv}
                 /\ chatmessage' = chatmessage \cup {user_message}
                 /\ clock' = t2
                 /\ initial_data' = [initial_data EXCEPT ![r] =
                        [user_message |-> user_message,
                         conversation_id |-> conv.id]]
                 /\ Log(r, <<Commit("insert", "conversation", {conv}),
                             Commit("insert", "chatmessage", {user_message})>>)
                 /\ request' = [request EXCEPT ![r] =
                                    ChatRequest(prompt, conversation_id)]
                 /\ pc' = [pc EXCEPT ![r] = "initial"]
                 /\ UNCHANGED relay_locals
       ELSE IF ~Has(conversation, conversation_id)
       THEN NotFound(r, ChatRequest(prompt, conversation_id))
       ELSE \E t2 \in ClockReads(clock) :
              LET user_message == ChatMessage(NextId(chatmessage), "user",
                                              prompt, t2, conversation_id)
              IN /\ chatmessage' = chatmessage \cup {user_message}
                 /\ clock' = t2
                 /\ initial_data' = [initial_data EXCEPT ![r] =
                        [user_message |-> user_message,
                         conversation_id |-> conversation_id]]
                 /\ Log(r, <<Commit("insert", "chatmessage", {user_message})>>)
                 /\ request' = [request EXCEPT ![r] =
                                    ChatRequest(prompt, conversation_id)]
                 /\ pc' = [pc EXCEPT ![r] = "initial"]
                 /\ UNCHANGED <<conversation, relay_locals>>

\* IsUserMessage without the test of the role.
IsStoredMessage(rows, message_id) == Has(rows, message_id)

\* The test of line 175, negated: the message exists and its role is user.
IsUserMessage(rows, message_id) ==
    Has(rows, message_id) /\ Row(rows, message_id).role = "user"

\* MessagesToDelete without the where clause on conversation_id.
MessagesToDeleteAnyConversation(rows, conversation_id, timestamp_of_edit) ==
    {m \in rows : m.created_at >= timestamp_of_edit}

\* The rows line 179 selects.
MessagesToDelete(rows, conversation_id, timestamp_of_edit) ==
    {m \in MessagesOf(rows, conversation_id) :
        m.created_at >= timestamp_of_edit}

\* POST /api/regenerate, lines 172-193: up to the return of the
\* StreamingResponse.
regenerate_from_prompt(r, message_id, new_prompt) ==
    /\ Arrives(r)
    /\ IF ~IsUserMessage(chatmessage, message_id)
       THEN NotFound(r, RegenerateRequest(message_id, new_prompt))
       ELSE \E t \in ClockReads(clock) :
              LET original_message == Row(chatmessage, message_id)
                  conversation_id == original_message.conversation_id
                  timestamp_of_edit == original_message.created_at
                  messages_to_delete ==
                      MessagesToDelete(chatmessage, conversation_id,
                                       timestamp_of_edit)
                  kept == chatmessage \ messages_to_delete
                  new_user_message == ChatMessage(NextId(kept), "user",
                                          new_prompt, t, conversation_id)
              IN /\ chatmessage' = kept \cup {new_user_message}
                 /\ clock' = t
                 /\ initial_data' = [initial_data EXCEPT ![r] =
                        [user_message |-> new_user_message,
                         conversation_id |-> conversation_id]]
                 /\ Log(r, <<Commit("delete", "chatmessage", messages_to_delete),
                             Commit("insert", "chatmessage", {new_user_message})>>)
                 /\ request' = [request EXCEPT ![r] =
                                    RegenerateRequest(message_id, new_prompt)]
                 /\ pc' = [pc EXCEPT ![r] = "initial"]
                 /\ UNCHANGED <<conversation, relay_locals>>

\* DELETE /api/conversations/{conversation_id}, lines 79-85.  The relationship
\* cascade deletes the conversation's messages with it.
delete_conversation(r, conversation_id) ==
    /\ Arrives(r)
    /\ IF ~Has(conversation, conversation_id)
       THEN NotFound(r, DeleteRequest(conversation_id))
       ELSE LET conv == Row(conversation, conversation_id)
                cascade == MessagesOf(chatmessage, conversation_id)
            IN /\ conversation' = conversation \ {conv}
               /\ chatmessage' = chatmessage \ cascade
               /\ Log(r, <<Commit("delete", "chatmessage", cascade),
                           Commit("delete", "conversation", {conv})>>)
               /\ request' = [request EXCEPT ![r] =
                                  DeleteRequest(conversation_id)]
               /\ pc' = [pc EXCEPT ![r] = "http204"]
               /\ UNCHANGED <<clock, initial_data, relay_locals>>

\* ------------------------------------------------------------------ relay
Goto(r, label) == pc' = [pc EXCEPT ![r] = label]

\* combined_stream, line 166 (191): the first event of the response.
combined_stream(r) ==
    /\ pc[r] = "initial"
    /\ Log(r, <<InitialEvent(initial_data[r])>>)
    /\ Goto(r, "assemble")
    /\ UNCHANGED <<store, clock, request, initial_data, relay_locals>>

\* stream_ollama_response, lines 99-135: the context is built from the store
\* as it is now and the request is sent upstream.
build_context(r) ==
    /\ pc[r] = "assemble"
    /\ \E history \in OrderByCreatedAtDesc(
                        MessagesOf(chatmessage,
                                   initial_data[r].conversation_id)) :
          messages_for_ollama' =
              [messages_for_ollama EXCEPT ![r] = BuildContext(history)]
    /\ full_response_content' = [full_response_content EXCEPT ![r] = <<>>]
    /\ Goto(r, "connect")
    /\ UNCHANGED <<store, clock, request, initial_data, chunk_done,
                   status_code, received, skipped, trace>>

\* upstream_status_error without the return of line 137.
upstream_status_error_no_return(r) ==
    /\ pc[r] = "connect"
    /\ status_code' = [status_code EXCEPT ![r] = 500]
    /\ Log(r, <<ErrorEvent(ErrorBody)>>)
    /\ Goto(r, "lines")
    /\ UNCHANGED <<store, clock, request, initial_data, messages_for_ollama,
                   full_response_content, chunk_done, received, skipped>>

\* The upstream answers with a status other than 200, lines 136-137.
upstream_status_error(r) ==
    /\ pc[r] = "connect"
    /\ status_code' = [status_code EXCEPT ![r] = 500]
    /\ Log(r, <<ErrorEvent(ErrorBody)>>)
    /\ Goto(r, "closed")
    /\ UNCHANGED <<store, clock, request, initial_data, messages_for_ollama,
                   full_response_content, chunk_done, received, skipped>>

\* The upstream answers 200: the loop of line 139 starts.
upstream_status_ok(r) ==
    /\ pc[r] = "connect"
    /\ status_code' = [status_code EXCEPT ![r] = 200]
    /\ Goto(r, "lines")
    /\ UNCHANGED <<store, clock, request, initial_data, messages_for_ollama,
                   full_response_content, chunk_done, received, skipped, trace>>

\* httpx raises (connect error, read error, timeout) at line 131 or 139:
\* nothing in the generator catches it.
upstream_transport_error(r) ==
    /\ pc[r] \in {"connect", "lines"}
    /\ Goto(r, "raised")
    /\ UNCHANGED <<store, clock, request, initial_data, relay_locals, trace>>

\* persist_and_done with the done event sent before the commit.
persist_and_done_early_event(r) ==
    \E t \in ClockReads(clock) :
      LET assistant_message ==
              ChatMessage(NextId(chatmessage), "assistant",
                          full_response_content[r], t,
                          initial_data[r].conversation_id)
      IN /\ chatmessage' = chatmessage \cup {assistant_message}
         /\ clock' = t
         /\ Log(r, <<DoneEvent(assistant_message),
                     Commit("insert", "chatmessage", {assistant_message})>>)
         /\ Goto(r, "lines")
         /\ UNCHANGED conversation

\* Lines 145-149 with the store accepting the insert: the reply is committed,
\* refreshed and sent in the done event; the loop of line 139 goes on.
persist_and_done(r) ==
    \E t \in ClockReads(clock) :
      LET assistant_message ==
              ChatMessage(NextId(chatmessage), "assistant",
                          full_response_content[r], t,
                          initial_data[r].conversation_id)
      IN /\ chatmessage' = chatmessage \cup {assistant_message}
         /\ clock' = t
         /\ Log(r, <<Commit("insert", "chatmessage", {assistant_message}),
                     DoneEvent(assistant_message)>>)
         /\ Goto(r, "lines")
         /\ UNCHANGED conversation

\* Lines 146-148 with the store failing: the exception leaves the generator.
persist_fails(r) ==
    /\ Goto(r, "raised")
    /\ UNCHANGED <<store, clock, trace>>

\* on_done_flag without the test of the flag: the reply is persisted after
\* every parsed line.
on_done_flag_unconditional(r, done, commits) ==
    IF commits THEN persist_and_done(r) ELSE persist_fails(r)

\* if chunk.get("done"), line 145
on_done_flag(r, done, commits) ==
    IF done
    THEN IF commits THEN persist_and_done(r) ELSE persist_fails(r)
    ELSE /\ Goto(r, "lines")
         /\ UNCHANGED <<store, clock, trace>>

\* The delta and done events sent so far, over all relays.
EventsSent ==
    LET n(r) == Len(SelectSeq(trace[r],
                     LAMBDA e : e.kind = "event" /\ e.type \in {"delta", "done"}))
        RECURSIVE sum(_)
        sum(k) == IF k = 0 THEN 0 ELSE n(k) + sum(k - 1)
    IN sum(NumRequests)

\* skip_unparsable with no except clause: the JSONDecodeError leaves the
\* generator.
skip_unparsable_raising(r) ==
    /\ skipped[r] < MaxSkipped
    /\ skipped' = [skipped EXCEPT ![r] = @ + 1]
    /\ Goto(r, "raised")
    /\ UNCHANGED <<store, clock, full_response_content, chunk_done, received,
                   trace>>

\* json.loads raises JSONDecodeError at line 142 and line 150 passes: the
\* loop goes on with the next line.
skip_unparsable(r) ==
    /\ skipped[r] < MaxSkipped
    /\ skipped' = [skipped EXCEPT ![r] = @ + 1]
    /\ Goto(r, "lines")
    /\ UNCHANGED <<store, clock, full_response_content, chunk_done, received,
                   trace>>

\* One pass of the loop body, lines 139-150, up to its first yield.
read_line(r, line, commits, budget) ==
    /\ pc[r] = "lines"
    /\ EventsSent < budget
    /\ UNCHANGED <<request, initial_data, messages_for_ollama, status_code>>
    /\ IF line.shape = "blank"
       THEN UNCHANGED <<store, clock, pc, full_response_content, chunk_done,
                        received, skipped, trace>>
       ELSE IF line.shape = "malformed"
       THEN skip_unparsable(r)
       ELSE IF line.shape = "not_object"
       THEN /\ Goto(r, "raised")
            /\ UNCHANGED <<store, clock, full_response_content, chunk_done,
                           received, skipped, trace>>
       ELSE IF line.content # <<>>
       THEN /\ received' = [received EXCEPT ![r] = Append(@, line)]
            /\ full_response_content' =
                  [full_response_content EXCEPT ![r] = Concat(@, line.content)]
            /\ Log(r, <<DeltaEvent(line.content)>>)
            /\ chunk_done' = [chunk_done EXCEPT ![r] = line.done]
            /\ Goto(r, "delta")
            /\ UNCHANGED <<store, clock, skipped>>
       ELSE /\ received' = [received EXCEPT ![r] =
                               IF line.done THEN Append(@, line) ELSE @]
            /\ UNCHANGED <<full_response_content, chunk_done, skipped>>
            /\ on_done_flag(r, line.done, commits)

\* The generator is resumed after the yield of line 144.
after_delta(r, commits) ==
    /\ pc[r] = "delta"
    /\ on_done_flag(r, chunk_done[r], commits)
    /\ UNCHANGED <<request, initial_data, relay_locals>>

\* response.aiter_lines() is exhausted: the generator returns.
end_of_stream(r) ==
    /\ pc[r] = "lines"
    /\ Goto(r, "closed")
    /\ UNCHANGED <<store, clock, request, initial_data, relay_locals, trace>>

\* cancel with the accumulator saved as the reply when the consumer leaves.
cancel_persisting_partial(r) ==
    /\ pc[r] \in {"initial", "assemble", "connect", "lines", "delta"}
    /\ \E t \in ClockReads(clock) :
         LET assistant_message ==
                 ChatMessage(NextId(chatmessage), "assistant",
                             full_response_content[r], t,
                             initial_data[r].conversation_id)
         IN /\ chatmessage' = chatmessage \cup {assistant_message}
            /\ clock' = t
            /\ Log(r, <<Commit("insert", "chatmessage", {assistant_message})>>)
    /\ Goto(r, "cancelled")
    /\ UNCHANGED <<conversation, request, initial_data, relay_locals>>

\* The consumer disconnects while the generator is suspended.
cancel(r) ==
    /\ pc[r] \in {"initial", "assemble", "connect", "lines", "delta"}
    /\ Goto(r, "cancelled")
    /\ UNCHANGED <<store, clock, request, initial_data, relay_locals, trace>>

\* ------------------------------------------------------------------ Spec
\* The steps of the request slots R, with prompts drawn from P, upstream
\* lines from L, the outcome of the relay's commit (TRUE: committed, FALSE:
\* raised) from O, and at most n delta and done events sent.
Step(R, P, L, O, n) ==
    \E r \in R :
        \/ \E p \in P, c \in ConversationIds : chat_stream(r, p, c)
        \/ \E m \in MessageIds, p \in P : regenerate_from_prompt(r, m, p)
        \/ \E c \in ConversationIds \ {None} : delete_conversation(r, c)
        \/ combined_stream(r)
        \/ build_context(r)
        \/ upstream_status_ok(r)
        \/ \E line \in L, commits \in O : read_line(r, line, commits, n)
        \/ \E commits \in O : after_delta(r, commits)
        \/ end_of_stream(r)

\* What else can happen to the relay of a slot of R: the upstream fails, the
\* consumer goes away.
Fault(R) ==
    \E r \in R :
        \/ upstream_status_error(r)
        \/ upstream_transport_error(r)
        \/ cancel(r)

\* One request, every kind of upstream line.
NextRelay == Step({1}, Prompts, Lines, BOOLEAN, MaxEvents) \/ Fault({1})

SpecRelay == Init /\ [][NextRelay]_vars

\* Concurrent requests, with the upstream lines of a short reply.
ReplyLines == {JsonLine(Str("a", 1), FALSE), JsonLine(<<>>, TRUE)}

Next == Step(Requests, {Str("u", 1)}, ReplyLines, {TRUE}, MaxReplyEvents)

Spec == Init /\ [][Next]_vars

\* ------------------------------------------------------------------ SpecAssembler
\* The context assembler on every stored history of up to MaxHist messages:
\* a chat request on conversation 1 is about to build its context.
AssemblerLengths ==
    {0, 1, CONTEXT_CHAR_LIMIT - 1, CONTEXT_CHAR_LIMIT, CONTEXT_CHAR_LIMIT + 1}
AssemblerChars == <<"a", "b", "c", "d", "e", "f", "g", "h">>

\* The stores of n messages.  Rows 1..n are in insertion order, so created_at
\* does not decrease with the id.
AssemblerStores(n) ==
    {{ChatMessage(i, role[i], Str(AssemblerChars[i], size[i]), at[i], 1) :
          i \in 1..n} :
        role \in [1..n -> {"user", "assistant"}],
        size \in [1..n -> AssemblerLengths],
        at \in {f \in [1..n -> 1..n] :
                  /\ f[1] = 1
                  /\ \A i \in 1..(n - 1) : f[i + 1] \in ClockReads(f[i])}}

InitAssembler ==
    /\ conversation = {SeedConversation}
    /\ \E n \in 1..MaxHist :
          chatmessage \in {rows \in AssemblerStores(n) :
                              \E m \in rows : m.role = "user"}
    /\ clock = Max({m.created_at : m \in chatmessage})
    /\ LET mine == Row(chatmessage,
                       Max({m.id : m \in {x \in chatmessage : x.role = "user"}}))
           data == [user_message |-> mine, conversation_id |-> 1]
       IN /\ request = [r \in Requests |->
                          IF r = 1 THEN ChatRequest(mine.content, 1)
                          ELSE NoRequest]
          /\ initial_data = [r \in Requests |->
                          IF r = 1 THEN data ELSE NoInitialData]
          /\ trace = [r \in Requests |->
                          IF r = 1
                          THEN <<Commit("insert", "chatmessage", {mine}),
                                 InitialEvent(data)>>
                          ELSE <<>>]
    /\ pc = [r \in Requests |-> IF r = 1 THEN "assemble" ELSE "idle"]
    /\ messages_for_ollama = [r \in Requests |-> <<>>]
    /\ full_response_content = [r \in Requests |-> <<>>]
    /\ chunk_done = [r \in Requests |-> FALSE]
    /\ status_code = [r \in Requests |-> None]
    /\ received = [r \in Requests |-> <<>>]
    /\ skipped = [r \in Requests |-> 0]

NextAssembler == \E r \in {1} : build_context(r)

SpecAssembler == InitAssembler /\ [][NextAssembler]_vars

\* ------------------------------------------------------------------ claims
RECURSIVE ContextChars(_)
ContextChars(context) ==
    IF context = <<>> THEN 0
    ELSE StrLen(context[1].content) + ContextChars(Tail(context))

Project(q) ==
    [i \in 1..Len(q) |-> [role |-> q[i].role, content |-> q[i].content]]

\* The orders of the rows that are oldest to newest by created_at.
ChronologicalOrders(rows) ==
    {q \in [1..Cardinality(rows) -> rows] :
        /\ \A i, j \in 1..Cardinality(rows) : i # j => q[i] # q[j]
        /\ \A i, j \in 1..Cardinality(rows) :
              i < j => q[i].created_at <= q[j].created_at}

IsPrefixOf(s, q) == \E k \in 0..Len(q) : s = SubSeq(q, 1, k)
IsSuffixOf(s, q) == \E k \in 0..Len(q) : s = SubSeq(q, k + 1, Len(q))

Assembled(r) == pc[r] = "connect"
StoredHistory(r) == MessagesOf(chatmessage, initial_data[r].conversation_id)

\* C2: the content lengths of the messages of an assembled context never sum
\* to more than the budget CONTEXT_CHAR_LIMIT, whatever the stored history
\* (messages as long as the budget or longer included).
C2_BudgetBound ==
    \A r \in Requests :
        ContextChars(messages_for_ollama[r]) <= CONTEXT_CHAR_LIMIT

\* C2 witness: a history that holds a message of at least the budget and
\* does not fit as a whole, with a context that fills the budget exactly.
C2_Witness ==
    /\ Assembled(1)
    /\ \E m \in StoredHistory(1) : StrLen(m.content) >= CONTEXT_CHAR_LIMIT
    /\ Len(messages_for_ollama[1]) < Cardinality(StoredHistory(1))
    /\ Len(messages_for_ollama[1]) >= 2
    /\ ContextChars(messages_for_ollama[1]) = CONTEXT_CHAR_LIMIT

\* C3 as stated: the assembled context is a prefix of the conversation's
\* stored messages taken oldest to newest.
C3_PrefixOfHistory ==
    \A r \in Requests :
        Assembled(r) =>
            \E q \in ChronologicalOrders(StoredHistory(r)) :
                IsPrefixOf(messages_for_ollama[r], Project(q))

\* C3 amended: the assembled context is a suffix (the most recent messages,
\* without a gap) of the conversation's stored messages taken oldest to
\* newest, in that order.
C3_SuffixOfHistory ==
    \A r \in Requests :
        Assembled(r) =>
            \E q \in ChronologicalOrders(StoredHistory(r)) :
                IsSuffixOf(messages_for_ollama[r], Project(q))

\* C3 witness: the oldest message of three is left out and the two newer
\* ones, of different times, are the context.
C3_Witness ==
    /\ Assembled(1)
    /\ Cardinality(StoredHistory(1)) = 3
    /\ Len(messages_for_ollama[1]) = 2
    /\ \A m, n \in StoredHistory(1) : m # n => m.created_at # n.created_at

\* ---- the relay's events and commits
IsEvent(e, type) == e.kind = "event" /\ e.type = type
IsCommit(e) == e.kind = "commit"
InsertsAssistant(e) ==
    /\ IsCommit(e) /\ e.op = "insert" /\ e.table = "chatmessage"
    /\ \E m \in e.rows : m.role = "assistant"

Events(r) == SelectSeq(trace[r], LAMBDA e : e.kind = "event")
Commits(r) == SelectSeq(trace[r], IsCommit)
Deltas(r) == SelectSeq(trace[r], LAMBDA e : IsEvent(e, "delta"))
DoneEvents(r) == SelectSeq(trace[r], LAMBDA e : IsEvent(e, "done"))
ErrorEvents(r) == SelectSeq(trace[r], LAMBDA e : IsEvent(e, "error"))

\* The commits of the relay: those after the initial event.
RelayCommits(r) ==
    LET first == CHOOSE i \in 1..Len(trace[r]) : IsEvent(trace[r][i], "initial")
    IN IF Events(r) = <<>> THEN <<>>
       ELSE SelectSeq(SubSeq(trace[r], first, Len(trace[r])), IsCommit)

RECURSIVE Join(_)
Join(pieces) ==
    IF pieces = <<>> THEN <<>> ELSE Concat(pieces[1], Join(Tail(pieces)))

DeltaFragments(r) == [i \in 1..Len(Deltas(r)) |-> Deltas(r)[i].content]
ReceivedFragments(r) ==
    LET with == SelectSeq(received[r], LAMBDA c : c.content # <<>>)
    IN [i \in 1..Len(with) |-> with[i].content]

UserInsert(r) == Commit("insert", "chatmessage", {initial_data[r].user_message})

\* C1: a step that sends a done event has, just before the event, committed a
\* new assistant message of the relay's conversation whose content is the
\* accumulator; the row is in the store when the event is sent, and the event
\* carries that row (its id and created_at).
C1_PersistBeforeDone ==
    [][\A r \in Requests :
         \A j \in (Len(trace[r]) + 1)..Len(trace'[r]) :
            IsEvent(trace'[r][j], "done") =>
               LET message == trace'[r][j].message
               IN /\ j > 1
                  /\ trace'[r][j - 1] = Commit("insert", "chatmessage", {message})
                  /\ message \in chatmessage'
                  /\ ~Has(chatmessage, message.id)
                  /\ message.role = "assistant"
                  /\ message.conversation_id = initial_data[r].conversation_id
                  /\ message.content = full_response_content'[r]]_vars

\* C1 witness: a done event has been sent for a reply of two fragments.
C1_Witness ==
    /\ Len(DoneEvents(1)) = 1
    /\ Len(Deltas(1)) = 2
    /\ DoneEvents(1)[1].message.content = Str("a", 1) \o Str("b", 1)
    /\ DoneEvents(1)[1].message \in chatmessage

C5_DeltaRoundTrip ==
    \A r \in Requests :
        (pc[r] = "closed" /\ DoneEvents(r) # <<>>) =>
            /\ DeltaFragments(r) = ReceivedFragments(r)
            /\ \A i \in 1..Len(DoneEvents(r)) :
                  Join(DeltaFragments(r)) = DoneEvents(r)[i].message.content

\* C6: a relay commits at most once, the insert of one assistant message, and
\* not before it has read a chunk with the completion flag.
C6_AtMostOneWrite ==
    \A r \in Requests :
        /\ Len(RelayCommits(r)) <= 1
        /\ \A i \in 1..Len(RelayCommits(r)) :
              /\ InsertsAssistant(RelayCommits(r)[i])
              /\ \E k \in 1..Len(received[r]) : received[r][k].done

\* C7: the events of a response are one initial event, then the delta events
\* in the order of the upstream fragments, then the terminal event; nothing
\* follows the terminal event.
C7_EventOrdering ==
    \A r \in Requests :
        LET ev == Events(r)
        IN ev # <<>> =>
             /\ IsEvent(ev[1], "initial")
             /\ \A i \in 2..Len(ev) : ~IsEvent(ev[i], "initial")
             /\ DeltaFragments(r) = ReceivedFragments(r)
             /\ \A i \in 1..Len(ev) :
                   ev[i].type \in {"done", "error"} => i = Len(ev)

\* C8: a response that has sent its initial event and ended without the
\* consumer going away ends with a done event or an error event.
C8_TerminalShapedEnding ==
    \A r \in Requests :
        (pc[r] \in {"closed", "raised"} /\ Events(r) # <<>>) =>
            Events(r)[Len(Events(r))].type \in {"done", "error"}

\* C9: a regenerate request whose message_id names no stored message, or a
\* message whose role is not user, ends not-found: the store is as it was,
\* and no event is sent then or later.
C9_RegeneratePrecondition ==
    [][\A r \in Requests :
         /\ ( /\ pc[r] = "idle" /\ pc'[r] # "idle"
              /\ request'[r].kind = "regenerate"
              /\ \/ ~Has(chatmessage, request'[r].message_id)
                 \/ Row(chatmessage, request'[r].message_id).role # "user" )
            => ( /\ pc'[r] = "http404"
                 /\ conversation' = conversation
                 /\ chatmessage' = chatmessage
                 /\ trace'[r] = <<>> )
         /\ pc[r] = "http404" => (pc'[r] = "http404" /\ trace'[r] = <<>>)]_vars

\* C9 witness: a regenerate request on a stored assistant message has ended
\* not-found.
C9_Witness ==
    /\ pc[1] = "http404"
    /\ request[1].kind = "regenerate"
    /\ Has(chatmessage, request[1].message_id)
    /\ Row(chatmessage, request[1].message_id).role = "assistant"
    /\ chatmessage = SeedMessages

\* The rows the request has inserted into chatmessage.
InsertedMessages(r) ==
    UNION {trace[r][i].rows :
             i \in {k \in 1..Len(trace[r]) :
                      /\ IsCommit(trace[r][k]) /\ trace[r][k].op = "insert"
                      /\ trace[r][k].table = "chatmessage"}}

\* C10: after the handler of a regenerate request on a user message of time
\* t0 (the only request; the stored times are pairwise distinct), the
\* conversation holds the earlier messages with created_at < t0, then the new
\* user message, then the replies: none before the done event, exactly one
\* once it is sent.  No earlier message with created_at >= t0 remains.
C10_RewindPostcondition ==
    \A r \in Requests :
        (request[r].kind = "regenerate" /\ pc[r] \notin {"idle", "http404"}) =>
            LET original == Row(SeedMessages, request[r].message_id)
                t0 == original.created_at
                before == {m \in MessagesOf(SeedMessages, original.conversation_id) :
                              m.created_at < t0}
                now == MessagesOf(chatmessage, original.conversation_id)
                new == initial_data[r].user_message
                replies == now \ (before \cup {new})
            IN /\ before \subseteq now
               /\ new \in now
               /\ new.role = "user" /\ new.content = request[r].prompt
               /\ \A m \in before : m.created_at < new.created_at
               /\ \A m \in (now \cap SeedMessages) \ InsertedMessages(r) :
                     m.created_at < t0
               /\ \A m \in replies :
                     m.role = "assistant" /\ m.created_at >= new.created_at
               /\ Cardinality(replies) = IF DoneEvents(r) = <<>> THEN 0 ELSE 1

\* C11: when a regenerate request on the user message M has rewound the
\* conversation and its response has ended with the done event, a later
\* regenerate request with the same id M ends not-found: the store is as it
\* was and the request sends no event.
C11_SecondRegenerateNotFound ==
    [][\A r1, r2 \in Requests :
         ( /\ r1 # r2
           /\ request[r1].kind = "regenerate"
           /\ pc[r1] = "closed" /\ DoneEvents(r1) # <<>>
           /\ pc[r2] = "idle" /\ pc'[r2] # "idle"
           /\ request'[r2].kind = "regenerate"
           /\ request'[r2].message_id = request[r1].message_id )
         => ( /\ pc'[r2] = "http404"
              /\ conversation' = conversation
              /\ chatmessage' = chatmessage
              /\ trace'[r2] = <<>> )]_vars

\* C12: a relay whose consumer went away before a done event was sent has
\* committed nothing, then and ever after: the request's only inserts are the
\* user message (and its conversation), and the store holds no assistant
\* message of the relay.
C12_CancelPersistsNothing ==
    \A r \in Requests :
        (pc[r] = "cancelled" /\ DoneEvents(r) = <<>>) =>
            /\ RelayCommits(r) = <<>>
            /\ \A m \in InsertedMessages(r) : m.role = "user"
            /\ \A m \in chatmessage :
                  (m.role = "assistant" /\ m \notin SeedMessages) =>
                     \E q \in Requests \ {r} : m \in InsertedMessages(q)

\* C12 witness: the consumer went away after two fragments were streamed and
\* before a line with the completion flag was read.
C12_Witness ==
    /\ pc[1] = "cancelled"
    /\ Len(Deltas(1)) = 2
    /\ full_response_content[1] # <<>>
    /\ \A k \in 1..Len(received[1]) : ~received[1][k].done

\* The messages of the newest created_at among the rows.
Newest(rows) == {m \in rows : m.created_at = Max({x.created_at : x \in rows})}

\* C13: when the most recent message of the conversation is the request's
\* prompt and is longer than the budget, the context is empty; the prompt of
\* a chat or regenerate request being that most recent message, the relay of
\* a request whose prompt is longer than the budget submits an empty context.
C13_OversizedPromptEmptyContext ==
    \A r \in Requests :
        (Assembled(r) /\ StrLen(request[r].prompt) > CONTEXT_CHAR_LIMIT) =>
            messages_for_ollama[r] = <<>>

\* The assembler's part of C13, which holds: when the most recent stored
\* message of the conversation (every message of the newest created_at, if
\* several) is longer than the budget, the assembled context is empty; and
\* every message of a context is a stored message with its whole content.
C13_OversizedNewestEmptyContext ==
    \A r \in Requests :
        Assembled(r) =>
            /\ ( /\ StoredHistory(r) # {}
                 /\ \A m \in Newest(StoredHistory(r)) :
                       StrLen(m.content) > CONTEXT_CHAR_LIMIT )
               => messages_for_ollama[r] = <<>>
            /\ \A i \in 1..Len(messages_for_ollama[r]) :
                  \E m \in StoredHistory(r) :
                     messages_for_ollama[r][i] =
                        [role |-> m.role, content |-> m.content]

\* The k most recent messages of a history listed oldest to newest.
Recent(q, k) == SubSeq(q, Len(q) - k + 1, Len(q))

\* The largest k for which the k most recent messages total at most the
\* budget.
LongestFit(q) ==
    Max({k \in 0..Len(q) : ContextChars(Recent(q, k)) <= CONTEXT_CHAR_LIMIT})

\* C14: the assembled context is the longest run of most recent messages of
\* the stored history (taken oldest to newest) whose lengths total at most the
\* budget, in that order: a message is left out exactly when it, or a newer
\* one, would push the total above the budget, a total of exactly the budget
\* is accepted, and a history that fits is the context as a whole.
C14_GreedyInclusion ==
    \A r \in Requests :
        Assembled(r) =>
            \E q \in ChronologicalOrders(StoredHistory(r)) :
                /\ messages_for_ollama[r] = Project(Recent(q, LongestFit(q)))
                /\ ContextChars(q) <= CONTEXT_CHAR_LIMIT =>
                      messages_for_ollama[r] = Project(q)

\* C14 witness: of three messages the oldest would fit with the newest alone,
\* the middle one does not fit, and the context is the newest only.
C14_Witness ==
    /\ Assembled(1)
    /\ Cardinality(StoredHistory(1)) = 3
    /\ \A m, n \in StoredHistory(1) : m # n => m.created_at # n.created_at
    /\ \E q \in ChronologicalOrders(StoredHistory(1)) :
          /\ StrLen(q[3].content) = CONTEXT_CHAR_LIMIT - 1
          /\ StrLen(q[2].content) = CONTEXT_CHAR_LIMIT
          /\ StrLen(q[1].content) = 1
          /\ messages_for_ollama[1] = Project(<<q[3]>>)

\* What the relay has committed and sent after the initial event: the kind
\* of each entry and the text it carries.
RelayOutput(r) ==
    LET ev == trace[r]
        first == CHOOSE i \in 1..Len(ev) : IsEvent(ev[i], "initial")
        tail == SubSeq(ev, first + 1, Len(ev))
        text(e) == IF IsCommit(e)
                   THEN <<e.op, {<<m.role, m.content>> : m \in e.rows}>>
                   ELSE IF e.type = "delta" THEN <<"delta", e.content>>
                   ELSE IF e.type = "done"
                        THEN <<"done", e.message.role, e.message.content>>
                        ELSE <<e.type>>
    IN [i \in 1..Len(tail) |-> text(tail[i])]

\* The output the parsed chunks call for, read with the accumulator acc: a
\* delta per fragment, an insert and a done event per completion flag.
RECURSIVE OutputOf(_, _)
OutputOf(chunks, acc) ==
    IF chunks = <<>> THEN <<>>
    ELSE LET c == chunks[1]
             full == Concat(acc, c.content)
         IN (IF c.content # <<>> THEN << <<"delta", c.content>> >> ELSE <<>>)
            \o (IF c.done
                THEN << <<"insert", {<<"assistant", full>>}>>,
                        <<"done", "assistant", full>> >>
                ELSE <<>>)
            \o OutputOf(Tail(chunks), full)

\* C15: a step in which the relay reads a line that json.loads rejects sends
\* no event, commits nothing, leaves the store and the accumulator as they
\* were and leaves the relay reading lines; and whatever number of such lines
\* was read, the events sent and the messages persisted by a relay that was
\* answered with status 200 are those the parsed lines alone call for.
C15_MalformedLinesTransparent ==
    [][\A r \in Requests :
         /\ skipped'[r] # skipped[r] =>
               /\ trace'[r] = trace[r]
               /\ conversation' = conversation /\ chatmessage' = chatmessage
               /\ full_response_content'[r] = full_response_content[r]
               /\ received'[r] = received[r]
               /\ pc'[r] = "lines"
         /\ (status_code'[r] = 200 /\ pc'[r] \in {"lines", "closed"}) =>
               RelayOutput(r)' = OutputOf(received'[r], <<>>)]_vars

\* C15 witness: a response that ended with a done event after a fragment,
\* with two unparsable lines read on the way.
C15_Witness ==
    /\ pc[1] = "closed"
    /\ skipped[1] = 2
    /\ Len(Deltas(1)) = 1
    /\ Len(DoneEvents(1)) = 1
    /\ DoneEvents(1)[1].message.content = Str("a", 1)

\* C16: a request that has sent an event, or whose relay has sent its request
\* upstream, committed its user message before its first event; and a
\* request has inserted an assistant message only if its relay was answered
\* with status 200 and has read a line with the completion flag.
C16_LifecycleOrdering ==
    \A r \in Requests :
        /\ (Events(r) # <<>> \/ pc[r] \in {"connect", "lines", "delta"}
                             \/ status_code[r] # None) =>
              \E i \in 1..Len(trace[r]) :
                  /\ trace[r][i] = UserInsert(r)
                  /\ initial_data[r].user_message.role = "user"
                  /\ initial_data[r].user_message.content = request[r].prompt
                  /\ \A j \in 1..Len(trace[r]) :
                        trace[r][j].kind = "event" => i < j
        /\ (\E m \in InsertedMessages(r) : m.role = "assistant") =>
              /\ status_code[r] = 200
              /\ \E k \in 1..Len(received[r]) : received[r][k].done

\* C16 witness: a reply of one fragment was persisted after the line with
\* the completion flag.
C16_Witness ==
    /\ Len(Deltas(1)) = 1
    /\ Len(DoneEvents(1)) = 1
    /\ \E m \in InsertedMessages(1) : m.role = "assistant" /\ m \in chatmessage
    /\ Len(received[1]) = 2 /\ received[1][2].done

\* C17: every stored message belongs to a stored conversation.
C17_MessageOwnership ==
    \A m \in chatmessage : Has(conversation, m.conversation_id)

\* C18: the handler of a chat request without conversation id commits one new
\* conversation and then one user message in it; with the id of a stored
\* conversation it commits one user message in that conversation and no
\* conversation; with any other id it ends not-found, the store as it was
\* and no event sent then or later.  No other step adds a conversation.
C18_ChatTargetResolution ==
    [][/\ \A r \in Requests :
            /\ (pc[r] = "idle" /\ pc'[r] # "idle" /\ request'[r].kind = "chat") =>
                  LET cid == request'[r].conversation_id
                      convs == conversation' \ conversation
                      msgs == chatmessage' \ chatmessage
                      posted(c) ==
                          /\ chatmessage \subseteq chatmessage'
                          /\ \E m \in msgs :
                                /\ msgs = {m}
                                /\ ~Has(chatmessage, m.id)
                                /\ m.role = "user"
                                /\ m.content = request'[r].prompt
                                /\ m.conversation_id = c
                  IN IF cid = None
                     THEN /\ conversation \subseteq conversation'
                          /\ \E c \in convs :
                                /\ convs = {c}
                                /\ ~Has(conversation, c.id)
                                /\ posted(c.id)
                                /\ trace'[r] =
                                      <<Commit("insert", "conversation", {c}),
                                        Commit("insert", "chatmessage", msgs)>>
                     ELSE IF Has(conversation, cid)
                     THEN /\ conversation' = conversation
                          /\ posted(cid)
                          /\ trace'[r] = <<Commit("insert", "chatmessage", msgs)>>
                     ELSE /\ pc'[r] = "http404"
                          /\ conversation' = conversation
                          /\ chatmessage' = chatmessage
                          /\ trace'[r] = <<>>
            /\ pc[r] = "http404" => (pc'[r] = "http404" /\ trace'[r] = <<>>)
       /\ conversation' \ conversation # {} =>
            \E r \in Requests :
                /\ pc[r] = "idle" /\ pc'[r] # "idle"
                /\ request'[r] .kind = "chat"
                /\ request'[r].conversation_id = None]_vars

\* C18 witness: after a conversation was deleted, a chat request naming it
\* has ended not-found; the store holds no message of it.
C18_Witness ==
    /\ request[1].kind = "delete" /\ pc[1] = "http204"
    /\ request[2].kind = "chat" /\ pc[2] = "http404"
    /\ request[2].conversation_id = request[1].conversation_id
    /\ MessagesOf(chatmessage, request[2].conversation_id) = {}

\* C19: the context a relay submits for a chat or regenerate request whose
\* prompt fits the budget ends with the request's own user message, when the
\* other requests are chat requests (here also: when the stored messages of
\* the conversation have pairwise different created_at).
C19_OwnPromptLast ==
    \A r \in Requests :
        ( /\ Assembled(r)
          /\ StrLen(request[r].prompt) <= CONTEXT_CHAR_LIMIT
          /\ \A q \in Requests \ {r} : request[q].kind \in {"none", "chat"}
          /\ \A m, n \in StoredHistory(r) :
                m # n => m.created_at # n.created_at )
        => /\ messages_for_ollama[r] # <<>>
           /\ messages_for_ollama[r][Len(messages_for_ollama[r])] =
                 [role |-> "user", content |-> request[r].prompt]

\* C20: a step of a regenerate request (its handler, its relay) leaves the
\* table of conversations as it was, and removes, adds and changes no message
\* of a conversation other than the one of its target message.
C20_RewindFrame ==
    [][\A r \in Requests :
         (request'[r].kind = "regenerate" /\ trace'[r] # trace[r]) =>
            LET cid == initial_data'[r].conversation_id
            IN /\ conversation' = conversation
               /\ \A m \in chatmessage \ chatmessage' : m.conversation_id = cid
               /\ \A m \in chatmessage' \ chatmessage : m.conversation_id = cid
               /\ pc[r] = "idle" =>
                     /\ Has(chatmessage, request'[r].message_id)
                     /\ Row(chatmessage, request'[r].message_id).conversation_id
                           = cid]_vars

\* C20 witness: a regenerate request has rewound its conversation while
\* another conversation holds a message not older than the target message;
\* that message is still stored.
C20_Witness ==
    /\ request[2].kind = "regenerate" /\ pc[2] \notin {"idle", "http404"}
    /\ trace[2][1].op = "delete" /\ trace[2][1].rows # {}
    /\ \E m \in chatmessage :
          /\ m.conversation_id # initial_data[2].conversation_id
          /\ \A d \in trace[2][1].rows : m.created_at >= d.created_at

====
